---- MODULE Spec2Model ----
(***************************************************************************)
(* Model of src/bootstrap/sanity.rs: the memoized command finder (Finder)  *)
(* and the ordered sanity rules of check().                                *)
(*                                                                         *)
(* Strings the code inspects with contains() are sequences of tokens, so   *)
(* that contains() is a real substring search.  A path is a sequence of    *)
(* components; a component is the sequence of its dot-separated segments,  *)
(* so that with_extension() and push(".exe") differ as they do in Rust.    *)
(***************************************************************************)
EXTENDS Integers, Sequences, FiniteSets, TLC

VARIABLES
    pc,          \* position of the running procedure
    build,       \* the Build handed to check(): configuration and outputs
    env,         \* the process environment: PATH, filesystem, subprocess results
    cmd_finder,  \* Option<Finder>: None until Finder::new has run
    abort,       \* Option<panic message>: Some once the process has panicked
    building_llvm, \* the local of check() computed at line 89
    hist         \* history: what was observed, for stating the properties

vars == <<pc, build, env, cmd_finder, abort, building_llvm, hist>>

----------------------------------------------------------------------------
(* Option<T> *)
None == <<>>
Some(x) == <<x>>
IsSome(o) == o # <<>>
IsNone(o) == o = <<>>
Unwrap(o) == o[1]
OrElse(o, alt) == IF IsSome(o) THEN o ELSE alt

\* the element of a singleton set; The({f(x) : x \in {v}}) is f(v) with v
\* evaluated once
The(S) == CHOOSE x \in S : TRUE

----------------------------------------------------------------------------
(* str::contains on token sequences *)
Contains(s, p) ==
    \E i \in 0..(Len(s) - Len(p)) : SubSeq(s, i + 1, i + Len(p)) = p

(* Paths.  A path is the sequence of its components.  ROOT is the root     *)
(* directory, so that `/bin/git` is <<ROOT, <<"bin">>, <<"git">>>>; a name   *)
(* is the sequence of its dot-separated segments, so that `python2.7` is    *)
(* <<"python2", "7">>, `.git` is <<"", "git">>, `.` is CurDir and `..` is    *)
(* ParentDir; TrailingSep at the end of a path is a trailing separator      *)
(* (`/q/`).  Prog("git") is the relative path `git`, Dir("bin") is `/bin`.  *)
ROOT == <<"/">>
CurDir == <<"", "">>
ParentDir == <<"", "", "">>
TrailingSep == <<>>
RootPath == <<ROOT>>

Prog(s) == << <<s>> >>
Name2(a, b) == << <<a, b>> >>
Dir(s) == <<ROOT, <<s>>>>

Tip(p) == p[Len(p)]
Butlast(p) == SubSeq(p, 1, Len(p) - 1)

\* Path::is_absolute
IsAbsolute(p) == p # <<>> /\ p[1] = ROOT

\* Path::components leaves out a trailing separator and every `.` that is
\* not the first component
Skipped(c) == c \in {CurDir, TrailingSep}
NotSkipped(c) == ~Skipped(c)
Components(p) ==
    IF p = <<>> THEN <<>> ELSE <<p[1]>> \o SelectSeq(Tail(p), NotSkipped)

RECURSIVE Trim(_)
\* the path without the components skipped at its end
Trim(p) == IF Len(p) > 1 /\ Skipped(Tip(p)) THEN Trim(Butlast(p)) ELSE p

\* Path::join (PathBuf::push): an absolute argument replaces the receiver;
\* otherwise the argument is appended after a separator, which the empty
\* argument leaves at the end (`/q` joined with `` is `/q/`)
Join(p, q) ==
    IF IsAbsolute(q) THEN q
    ELSE IF q = <<>>
    THEN IF p = <<>> \/ Tip(p) \in {ROOT, TrailingSep} THEN p
         ELSE p \o <<TrailingSep>>
    ELSE IF p # <<>> /\ Tip(p) = TrailingSep THEN Butlast(p) \o q
    ELSE p \o q

\* Path::with_extension: the last dot-separated segment of the file name is
\* replaced when there is one, else the extension is appended.  A path
\* without a file name (the empty path, the root, `.`, `..`) is returned as
\* it is; a file name that only begins with a dot (`.git`) has no extension.
\* The path is first copied up to the old extension and the new one is then
\* set on the copy, so a path ending in the name `..x` becomes `..`, which
\* has no file name to extend.
WithExtension(p, ext) ==
    LET t == Trim(p)
    IN  IF t = <<>> \/ Tip(t) \in {ROOT, CurDir, ParentDir} THEN p
        ELSE LET c == Tip(t)
                 stem == IF Len(c) > 1 /\ ~(Len(c) = 2 /\ c[1] = "")
                         THEN Butlast(c) ELSE c
             IN  IF p = t /\ Len(c) = 3 /\ Butlast(c) = <<"", "">> /\ c[3] # ""
                 THEN Butlast(t) \o <<ParentDir>>
                 ELSE Butlast(t) \o << stem \o <<ext>> >>

\* OsString::push(".exe"): plain concatenation to the end of the string; after
\* a separator, and for the empty string, it is the new name `.exe`
PushExe(p) ==
    IF p = <<>> THEN << <<"", "exe">> >>
    ELSE IF Tip(p) = ROOT THEN p \o << <<"", "exe">> >>
    ELSE IF Tip(p) = TrailingSep THEN Butlast(p) \o << <<"", "exe">> >>
    ELSE Butlast(p) \o << Tip(p) \o <<"exe">> >>

\* The filesystem is the set of paths of its regular files, relative ones
\* counted from the working directory (`../q` is <<ParentDir, <<"q">>>>); a
\* directory exists when a file lies below it; the root, the working
\* directory (the empty sequence) and the directories above it always do.
IsPrefix(p, f) == Len(f) > Len(p) /\ SubSeq(f, 1, Len(p)) = p
Above(d) == \A i \in 1..Len(d) : d[i] = ParentDir
IsDirectory(fs, d) == Above(d) \/ d = RootPath \/ \E f \in fs : IsPrefix(d, f)

RECURSIVE Resolve(_, _, _)
\* path resolution: the file or directory that `rest` names from the
\* directory `at`, None when a component other than the last is not a
\* directory (ENOENT, ENOTDIR); `..` stays at the root and climbs from the
\* working directory
Resolve(fs, at, rest) ==
    IF rest = <<>> THEN Some(at)
    ELSE IF ~IsDirectory(fs, at) THEN None
    ELSE IF Head(rest) = ROOT THEN Resolve(fs, RootPath, Tail(rest))
    ELSE IF Skipped(Head(rest)) THEN Resolve(fs, at, Tail(rest))
    ELSE IF Head(rest) = ParentDir
    THEN IF at = RootPath THEN Resolve(fs, at, Tail(rest))
         ELSE IF Above(at) THEN Resolve(fs, at \o <<ParentDir>>, Tail(rest))
         ELSE Resolve(fs, Butlast(at), Tail(rest))
    ELSE Resolve(fs, at \o <<Head(rest)>>, Tail(rest))

\* the components that need resolution; without them a path names itself
Plain(p) == \A i \in 1..Len(p) : p[i] \notin {CurDir, ParentDir, TrailingSep}
Resolved(fs, p) == IF Plain(p) THEN Some(p) ELSE Resolve(fs, <<>>, p)

\* Path::is_file and Path::exists.  The empty path names nothing:
\* metadata("") is an error.
IsFile(fs, p) ==
    /\ p # <<>>
    /\ \E r \in {Resolved(fs, p)} : IsSome(r) /\ Unwrap(r) \in fs
Exists(fs, p) ==
    /\ p # <<>>
    /\ \E r \in {Resolved(fs, p)} :
          IsSome(r) /\ (Unwrap(r) \in fs \/ IsDirectory(fs, Unwrap(r)))

----------------------------------------------------------------------------
(* env::split_paths.  A PATH value is a token sequence: names, "/" between  *)
(* the components of a directory, "." inside a name, SEP (the platform's    *)
(* separator between entries) and QUOTE (a double quote character).         *)
SEP == "SEP"
QUOTE == "\""

RECURSIVE SplitOn(_, _)
\* the pieces of s between occurrences of sep (always at least one piece)
SplitOn(s, sep) ==
    IF \A i \in 1..Len(s) : s[i] # sep THEN <<s>>
    ELSE LET k == CHOOSE i \in 1..Len(s) :
                      s[i] = sep /\ \A j \in 1..(i - 1) : s[j] # sep
         IN  <<SubSeq(s, 1, k - 1)>> \o SplitOn(SubSeq(s, k + 1, Len(s)), sep)

RECURSIVE SplitQuoted(_, _, _)
\* the Windows rule: a quote opens or closes a quoted region and is dropped,
\* a separator inside a quoted region belongs to the entry
SplitQuoted(s, entry, in_quote) ==
    IF s = <<>> THEN <<entry>>
    ELSE IF Head(s) = QUOTE THEN SplitQuoted(Tail(s), entry, ~in_quote)
    ELSE IF Head(s) = SEP /\ ~in_quote
    THEN <<entry>> \o SplitQuoted(Tail(s), <<>>, FALSE)
    ELSE SplitQuoted(Tail(s), entry \o <<Head(s)>>, in_quote)

RECURSIVE ConcatTokens(_)
\* the string spelled by a sequence of tokens
ConcatTokens(s) == IF s = <<>> THEN "" ELSE Head(s) \o ConcatTokens(Tail(s))

\* a name as its dot-separated segments
NameOf(tokens) ==
    LET segs == SplitOn(tokens, ".")
    IN  [i \in 1..Len(segs) |-> ConcatTokens(segs[i])]

\* A piece of PATH as a PathBuf: the empty piece is the empty path, a
\* leading "/" is the root, repeated separators count once and a separator
\* at the end stays.
PieceToPath(piece) ==
    IF piece = <<>> THEN <<>>
    ELSE LET parts == SplitOn(piece, "/")
             names == SelectSeq(parts, LAMBDA t : t # <<>>)
             comps == [i \in 1..Len(names) |-> NameOf(names[i])]
         IN  (IF Head(piece) = "/" THEN RootPath ELSE <<>>)
             \o comps
             \o (IF Tip(piece) = "/" /\ names # <<>> THEN <<TrailingSep>> ELSE <<>>)

\* On Windows the quotes are removed from each entry; elsewhere a quote is
\* an ordinary character of the directory name.
split_paths(windows, path) ==
    LET pieces == IF windows THEN SplitQuoted(path, <<>>, FALSE)
                  ELSE SplitOn(path, SEP)
    IN  [i \in 1..Len(pieces) |-> PieceToPath(pieces[i])]

----------------------------------------------------------------------------
(* Finder *)

\* panic!("couldn't find required command: {:?}", cmd)
MissingCommand(cmd) == [text |-> "couldn't find required command", arg |-> cmd]

\* Finder::new: an empty cache and the PATH of this moment (empty if unset)
FinderNew(e) == [cache |-> <<>>, path |-> IF IsSome(e.PATH) THEN Unwrap(e.PATH) ELSE <<>>]

\* the test of one candidate directory, lines 51-56
Candidate(fs, dir, cmd) ==
    LET target == Join(dir, cmd)
        cmd_alt == PushExe(cmd)
    IN  \/ IsFile(fs, target)
        \/ Exists(fs, WithExtension(target, "exe"))
        \/ Exists(fs, Join(target, cmd_alt))

\* the closure of or_insert_with: the first directory that matches
Search(fs, dirs, cmd) ==
    IF \E i \in 1..Len(dirs) : Candidate(fs, dirs[i], cmd)
    THEN LET k == CHOOSE i \in 1..Len(dirs) :
                      /\ Candidate(fs, dirs[i], cmd)
                      /\ \A j \in 1..(i - 1) : ~Candidate(fs, dirs[j], cmd)
         IN  Some(Join(dirs[k], cmd))
    ELSE None

\* Finder::maybe_have: the finder after the call, the value returned, and
\* whether the filesystem was searched
Searched(finder, path, e, cmd) ==
    The({[finder |-> [finder EXCEPT !.cache = (cmd :> r) @@ @],
          result |-> r, probed |-> TRUE] :
            r \in {The({Search(e.fs, dirs, cmd) : dirs \in {split_paths(e.windows, path)}})}})

\* (variants of maybe_have with a fault, used to test the properties:
\* one that searches on every call, one that searches the live PATH)
maybe_have_unmemoized(finder, e, cmd) == Searched(finder, finder.path, e, cmd)
maybe_have_live_path(finder, e, cmd) ==
    IF cmd \in DOMAIN finder.cache
    THEN [finder |-> finder, result |-> finder.cache[cmd], probed |-> FALSE]
    ELSE Searched(finder, FinderNew(e).path, e, cmd)
maybe_have(finder, e, cmd) ==
    IF cmd \in DOMAIN finder.cache
    THEN [finder |-> finder, result |-> finder.cache[cmd], probed |-> FALSE]
    ELSE Searched(finder, finder.path, e, cmd)

\* Finder::must_have: maybe_have, and a panic naming cmd when it found nothing
\* (variant with a fault: it returns instead of panicking)
must_have_never_panics(finder, e, cmd) ==
    The({[finder |-> m.finder, result |-> OrElse(m.result, Some(cmd)),
          probed |-> m.probed, panic |-> None] :
            m \in {maybe_have(finder, e, cmd)}})
must_have(finder, e, cmd) ==
    The({[finder |-> m.finder, result |-> m.result, probed |-> m.probed,
          panic |-> IF IsNone(m.result) THEN Some(MissingCommand(cmd)) ELSE None] :
            m \in {maybe_have(finder, e, cmd)}})

----------------------------------------------------------------------------
(* History of the finder calls, kept for stating the properties *)

NoteCall(h, e, op, cmd, m, panic) ==
    [h EXCEPT
        !.calls = @ + 1,
        !.probes = IF m.probed
                   THEN (cmd :> (IF cmd \in DOMAIN @ THEN @[cmd] + 1 ELSE 1)) @@ @
                   ELSE @,
        !.first = IF cmd \in DOMAIN @ THEN @ ELSE (cmd :> m.result) @@ @,
        !.last = Some([op |-> op, cmd |-> cmd, result |-> m.result,
                       probed |-> m.probed, panic |-> panic,
                       live |-> IF m.probed THEN e.PATH ELSE None])]

----------------------------------------------------------------------------
(* Target triples, as token sequences *)
T_LINUX == <<"x86_64", "-", "unknown", "-", "linux", "-", "gnu">>
T_MSVC == <<"x86_64", "-", "pc", "-", "windows", "-", "msvc">>
T_MUSL == <<"x86_64", "-", "unknown", "-", "linux", "-", "musl">>
T_NONE == <<"thumbv7m", "-", "none", "-", "eabi">>
T_IOS == <<"aarch64", "-", "apple", "-", "ios">>
T_DARWIN == <<"x86_64", "-", "apple", "-", "darwin">>
T_EMSCRIPTEN == <<"asmjs", "-", "unknown", "-", "emscripten">>

AllTargets == {T_LINUX, T_MSVC, T_MUSL, T_NONE, T_IOS, T_DARWIN, T_EMSCRIPTEN}

\* Default::default() of a per-target record: no_std is a plain bool (line 181
\* assigns `true` to it), musl_root an Option (line 196 assigns Some)
DefaultTarget == [llvm_config |-> None, musl_root |-> None, no_std |-> FALSE]

At(rule, i) == [rule |-> rule, i |-> i]

\* a Build on which every rule passes with an empty filesystem except for
\* python: one plain host without a per-target record, dry run
BaseBuild ==
    [is_git |-> FALSE,
     hosts |-> <<T_LINUX>>, targets |-> <<T_LINUX>>, build |-> T_LINUX,
     target_config |-> <<>>, musl_root |-> None,
     sanitizers |-> FALSE, ninja |-> FALSE, dry_run |-> TRUE,
     codegen_tests |-> FALSE, use_jemalloc |-> TRUE,
     python |-> None, nodejs |-> None, gdb |-> None, ccache |-> None,
     channel |-> "nightly",
     cc |-> [t \in AllTargets |-> Prog("cc")],
     ar |-> [t \in AllTargets |-> None],
     cxx |-> [t \in AllTargets |-> Some(Prog("c++"))],
     out |-> Dir("out"), src |-> Dir("src"),
     lldb_version |-> None, lldb_python_dir |-> None]

\* a subprocess that could not be started
NotStarted == [started |-> FALSE, success |-> FALSE, stdout |-> <<>>]
Ran(success, stdout) == [started |-> TRUE, success |-> success, stdout |-> stdout]

\* no_std_keys: the targets whose section of config.toml has a no-std key;
\* the loader writes the key's value into the record's no_std field
BaseEnv ==
    [windows |-> FALSE, PATH |-> Some(<<"/", "bin">>), BOOTSTRAP_PYTHON |-> None,
     fs |-> {}, lldb_version |-> NotStarted, lldb_python |-> NotStarted,
     cmake_help |-> Ran(TRUE, <<"Generators", "Visual Studio">>), stage0 |-> None,
     no_std_keys |-> {}]

InitHist(b) ==
    [calls |-> 0, probes |-> <<>>, first |-> <<>>, last |-> None,
     path_at_new |-> None, init_build |-> b,
     evaluated |-> <<>>, naborts |-> 0, abort_at |-> At("none", 0)]

----------------------------------------------------------------------------
(* The finder on its own: any sequence of queries, while the environment    *)
(* changes under it.                                                        *)

MaxCalls == 3

P_BIN == Dir("bin")
P_OPT == Dir("opt")

\* names queried: a bare name, a name with a dot, an absolute path
FinderCmds == {Prog("git"), Name2("python2", "7"), P_OPT \o Prog("git")}

\* files that may exist
FinderFiles ==
    {P_BIN \o Prog("git"), P_OPT \o Prog("git"),
     P_BIN \o Name2("git", "exe"),
     P_BIN \o Prog("git") \o Name2("git", "exe"),
     P_BIN \o Name2("python2", "exe")}

\* no regular file lies below another regular file
FsConsistent(fs) == \A f \in fs, g \in fs : ~IsPrefix(f, g)

FinderPaths ==
    {None, Some(<<"/", "bin">>), Some(<<"/", "opt", SEP, "/", "bin">>),
     Some(<<QUOTE, "/", "bin", QUOTE>>)}

InitFinder ==
    /\ env \in {[BaseEnv EXCEPT !.windows = w, !.PATH = p, !.fs = fs] :
                   w \in BOOLEAN, p \in FinderPaths,
                   fs \in {x \in SUBSET FinderFiles : FsConsistent(x)}}
    /\ build = BaseBuild
    /\ pc = At("finder", 0)
    /\ cmd_finder = Some(FinderNew(env))
    /\ abort = None
    /\ building_llvm = FALSE
    /\ hist = [InitHist(build) EXCEPT !.path_at_new = Some(FinderNew(env).path)]

\* a call of maybe_have
FinderQuery(cmd) ==
    /\ pc.rule = "finder"
    /\ hist.calls < MaxCalls
    /\ \E m \in {maybe_have(Unwrap(cmd_finder), env, cmd)} :
           /\ cmd_finder' = Some(m.finder)
           /\ hist' = NoteCall(hist, env, "maybe_have", cmd, m, None)
    /\ UNCHANGED <<pc, build, env, abort, building_llvm>>

\* a call of must_have
FinderRequire(cmd) ==
    /\ pc.rule = "finder"
    /\ hist.calls < MaxCalls
    /\ \E m \in {must_have(Unwrap(cmd_finder), env, cmd)} :
           /\ cmd_finder' = Some(m.finder)
           /\ abort' = m.panic
           /\ pc' = IF IsSome(m.panic) THEN At("aborted", 0) ELSE pc
           /\ hist' = [NoteCall(hist, env, "must_have", cmd, m, m.panic) EXCEPT
                          !.naborts = IF IsSome(m.panic) THEN @ + 1 ELSE @]
    /\ UNCHANGED <<build, env, building_llvm>>

\* the live PATH variable is changed
EnvSetPath(p) ==
    /\ pc.rule = "finder"
    /\ p # env.PATH
    /\ env' = [env EXCEPT !.PATH = p]
    /\ UNCHANGED <<pc, build, cmd_finder, abort, building_llvm, hist>>

\* a file is created or removed
FsChange(f) ==
    /\ pc.rule = "finder"
    /\ LET fs2 == IF f \in env.fs THEN env.fs \ {f} ELSE env.fs \cup {f}
       IN  /\ FsConsistent(fs2)
           /\ env' = [env EXCEPT !.fs = fs2]
    /\ UNCHANGED <<pc, build, cmd_finder, abort, building_llvm, hist>>

NextFinder ==
    \/ \E cmd \in FinderCmds : FinderQuery(cmd)
    \/ \E cmd \in FinderCmds : FinderRequire(cmd)
    \/ \E p \in FinderPaths : EnvSetPath(p)
    \/ \E f \in FinderFiles : FsChange(f)

SpecFinder == InitFinder /\ [][NextFinder]_vars

----------------------------------------------------------------------------
(* check(): the rules, each a function of the running context              *)
(* [build, finder, hist, bl (building_llvm), ret, panic] and of the         *)
(* environment.  A rule that panics returns with panic set; what it wrote   *)
(* before the panic stays written.                                          *)

Panic(text, arg) == Some([text |-> text, arg |-> arg])

\* cmd_finder.maybe_have(cmd) inside check()
Maybe(ctx, e, cmd) ==
    The({[ctx EXCEPT !.finder = m.finder, !.ret = m.result,
                     !.hist = NoteCall(ctx.hist, e, "maybe_have", cmd, m, None)] :
            m \in {maybe_have(ctx.finder, e, cmd)}})

\* cmd_finder.must_have(cmd) inside check()
Must(ctx, e, cmd) ==
    The({[ctx EXCEPT !.finder = m.finder, !.ret = m.result, !.panic = m.panic,
                     !.hist = NoteCall(ctx.hist, e, "must_have", cmd, m, m.panic)] :
            m \in {must_have(ctx.finder, e, cmd)}})

\* lines 72-79
RulePath(ctx, e) ==
    IF e.windows /\ Contains(IF IsSome(e.PATH) THEN Unwrap(e.PATH) ELSE <<>>, <<QUOTE>>)
    THEN [ctx EXCEPT !.panic = Panic("PATH contains invalid character", <<>>)]
    ELSE ctx

\* lines 84-86
RuleGit(ctx, e) ==
    IF ctx.build.is_git THEN Must(ctx, e, Prog("git")) ELSE ctx

\* lines 89-91: only the hosts that have a per-target record are looked at
BuildingLlvm(b) ==
    \E i \in 1..Len(b.hosts) :
        /\ b.hosts[i] \in DOMAIN b.target_config
        /\ IsNone(b.target_config[b.hosts[i]].llvm_config)

\* lines 89-94
RuleCmake(ctx, e) ==
    The({IF c.bl \/ c.build.sanitizers THEN Must(c, e, Prog("cmake")) ELSE c :
            c \in {[ctx EXCEPT !.bl = BuildingLlvm(ctx.build)]}})

\* lines 98-104
\* (variant with a fault: ninja-build itself is required)
NinjaRequested_requires_ninja_build(ctx, e) ==
    IF ctx.build.ninja THEN Must(ctx, e, Prog("ninja-build")) ELSE ctx
NinjaRequested(ctx, e) ==
    IF ctx.build.ninja
    THEN The({IF IsNone(r.ret) THEN Must(r, e, Prog("ninja")) ELSE r :
                 r \in {Maybe(ctx, e, Prog("ninja-build"))}})
    ELSE ctx

\* lines 113-117
\* (variant with a fault: the upgrade is made on every build host)
NinjaMsvc_any_host(ctx, e) ==
    IF ~ctx.build.ninja
    THEN The({IF IsSome(r.ret) THEN [r EXCEPT !.build.ninja = TRUE] ELSE r :
                 r \in {Maybe(ctx, e, Prog("ninja"))}})
    ELSE ctx
NinjaMsvc(ctx, e) ==
    IF ~ctx.build.ninja /\ Contains(ctx.build.build, <<"msvc">>)
    THEN The({IF IsSome(r.ret) THEN [r EXCEPT !.build.ninja = TRUE] ELSE r :
                 r \in {Maybe(ctx, e, Prog("ninja"))}})
    ELSE ctx

\* lines 97-118
RuleNinja(ctx, e) ==
    IF ctx.bl
    THEN The({IF IsSome(r.panic) THEN r ELSE NinjaMsvc(r, e) :
                 r \in {NinjaRequested(ctx, e)}})
    ELSE ctx

\* `field = field.take().map(|p| must_have(p))` for a configured path p:
\* take() empties the field before must_have can panic
Configured(ctx, e, field, p) ==
    The({IF IsSome(r.panic) THEN r ELSE [r EXCEPT !.build[field] = r.ret] :
            r \in {Must([ctx EXCEPT !.build[field] = None], e, p)}})

\* `.or_else(|| maybe_have(cmd))`: evaluated only when the chain has
\* produced no path so far
OrElseMaybe(ctx, e, field, cmd) ==
    IF IsSome(ctx.build[field]) THEN ctx
    ELSE The({[r EXCEPT !.build[field] = r.ret] : r \in {Maybe(ctx, e, cmd)}})

\* `.or_else(|| Some(must_have(cmd)))`
OrElseMust(ctx, e, field, cmd) ==
    IF IsSome(ctx.build[field]) THEN ctx
    ELSE The({IF IsSome(r.panic) THEN r ELSE [r EXCEPT !.build[field] = r.ret] :
                 r \in {Must(ctx, e, cmd)}})

\* lines 120-124
\* (variant with a fault: the configured path and BOOTSTRAP_PYTHON are
\* ignored and `python` is tried before `python2.7`)
RulePython_python_first(ctx, e) ==
    The({OrElseMust(r2, e, "python", Name2("python2", "7")) :
            r2 \in {The({OrElseMaybe(r1, e, "python", Prog("python2")) :
                       r1 \in {OrElseMaybe(ctx, e, "python", Prog("python"))}})}})
RulePython(ctx, e) ==
    IF IsSome(ctx.build.python)
    THEN Configured(ctx, e, "python", Unwrap(ctx.build.python))
    ELSE IF IsSome(e.BOOTSTRAP_PYTHON)
    THEN [ctx EXCEPT !.build.python = e.BOOTSTRAP_PYTHON]
    ELSE The({OrElseMust(r2, e, "python", Prog("python")) :
                 r2 \in {The({OrElseMaybe(r1, e, "python", Prog("python2")) :
                            r1 \in {OrElseMaybe(ctx, e, "python", Name2("python2", "7"))}})}})

\* lines 126-128
RuleNodejs(ctx, e) ==
    IF IsSome(ctx.build.nodejs)
    THEN Configured(ctx, e, "nodejs", Unwrap(ctx.build.nodejs))
    ELSE The({OrElseMaybe(r1, e, "nodejs", Prog("nodejs")) :
                 r1 \in {OrElseMaybe(ctx, e, "nodejs", Prog("node"))}})

\* lines 130-131
\* (variant with a fault: gdb is required when none is configured)
RuleGdb_required(ctx, e) ==
    IF IsSome(ctx.build.gdb)
    THEN Configured(ctx, e, "gdb", Unwrap(ctx.build.gdb))
    ELSE OrElseMust(ctx, e, "gdb", Prog("gdb"))
RuleGdb(ctx, e) ==
    IF IsSome(ctx.build.gdb)
    THEN Configured(ctx, e, "gdb", Unwrap(ctx.build.gdb))
    ELSE OrElseMaybe(ctx, e, "gdb", Prog("gdb"))

\* lines 139-148, one target
\* (variants with a fault: the archiver is never looked for; the compiler
\* is required in a dry run too)
RuleTargetCc_without_ar(ctx, e, target) ==
    IF Contains(target, <<"emscripten">>) \/ ctx.build.dry_run THEN ctx
    ELSE Must(ctx, e, ctx.build.cc[target])
RuleTargetCc_in_dry_run(ctx, e, target) ==
    IF Contains(target, <<"emscripten">>) THEN ctx
    ELSE Must(ctx, e, ctx.build.cc[target])
RuleTargetCc(ctx, e, target) ==
    IF Contains(target, <<"emscripten">>) THEN ctx
    ELSE IF ~ctx.build.dry_run
    THEN The({IF IsSome(r.panic) THEN r
              ELSE IF IsSome(ctx.build.ar[target])
              THEN Must(r, e, Unwrap(ctx.build.ar[target]))
              ELSE r :
                 r \in {Must(ctx, e, ctx.build.cc[target])}})
    ELSE ctx

\* line 153; cxx(host).unwrap() panics when none is configured
RequireCxx(ctx, e, host) ==
    IF ~ctx.build.dry_run
    THEN IF IsNone(ctx.build.cxx[host])
         THEN [ctx EXCEPT !.panic = Panic("called unwrap on an Err value", <<>>)]
         ELSE Must(ctx, e, Unwrap(ctx.build.cxx[host]))
    ELSE ctx

\* lines 152-160, one host
\* (variant with a fault: a dry run leaves use_jemalloc alone)
RuleHostCxx_not_in_dry_run(ctx, e, host) ==
    The({IF IsSome(r.panic) THEN r
         ELSE IF Contains(host, <<"msvc">>) /\ ~ctx.build.dry_run
         THEN [r EXCEPT !.build.use_jemalloc = FALSE]
         ELSE r :
            r \in {RequireCxx(ctx, e, host)}})
RuleHostCxx(ctx, e, host) ==
    The({IF IsSome(r.panic) THEN r
         ELSE IF Contains(host, <<"msvc">>)
         THEN [r EXCEPT !.build.use_jemalloc = FALSE]
         ELSE r :
            r \in {RequireCxx(ctx, e, host)}})

\* Path::starts_with: component by component
StartsWith(p, base) ==
    LET a == Components(p)
        b == Components(base)
    IN  Len(a) >= Len(b) /\ SubSeq(a, 1, Len(b)) = b

\* Path::parent, an Option: the empty path and the root have no parent, the
\* parent of a name directly below the root is the root, the parent of a
\* single relative name is the empty path
Parent(p) ==
    LET t == Trim(p)
    IN  IF t = <<>> \/ t = RootPath THEN None
        ELSE Some(Trim(Butlast(t)))

\* Build::llvm_filecheck: beside an external llvm-config when the target has
\* one (the bare name when that path has no parent), else in the build's
\* output tree
llvm_filecheck(b, target) ==
    IF target \in DOMAIN b.target_config /\ IsSome(b.target_config[target].llvm_config)
    THEN Join(Unwrap(OrElse(Parent(Unwrap(b.target_config[target].llvm_config)),
                            Some(<<>>))),
              Prog("FileCheck"))
    ELSE Join(Join(Join(b.out, Prog("llvm")), Prog("bin")), Prog("FileCheck"))

\* lines 164-167
RuleFilecheck(ctx, e) ==
    The({IF /\ ~StartsWith(filecheck, ctx.build.out)
            /\ ~Exists(e.fs, filecheck)
            /\ ctx.build.codegen_tests
         THEN [ctx EXCEPT !.panic = Panic("FileCheck executable does not exist", filecheck)]
         ELSE ctx :
            filecheck \in {llvm_filecheck(ctx.build, ctx.build.build)}})

\* Build::no_std as check() uses it: None without a per-target record, else
\* the record's bool
no_std(b, target) ==
    IF target \in DOMAIN b.target_config
    THEN Some(b.target_config[target].no_std)
    ELSE None

\* Build::musl_root as check() uses it: the target's own root, else the
\* global one
musl_root(b, target) ==
    OrElse(IF target \in DOMAIN b.target_config
           THEN b.target_config[target].musl_root ELSE None,
           b.musl_root)

\* target_config.entry(target).or_insert(Default::default())
EnsureEntry(tc, target) ==
    IF target \in DOMAIN tc THEN tc ELSE (target :> DefaultTarget) @@ tc

\* lines 171-174
ConstraintIos(ctx, e, target) ==
    IF /\ Contains(target, <<"apple", "-", "ios">>)
       /\ ~Contains(ctx.build.build, <<"apple", "-", "darwin">>)
    THEN [ctx EXCEPT !.panic = Panic("the iOS target is only supported on macOS", <<>>)]
    ELSE ctx

\* lines 177-182
DefaultNoStd(ctx, target) ==
    IF IsNone(no_std(ctx.build, target))
    THEN [ctx EXCEPT !.build.target_config =
             [EnsureEntry(@, target) EXCEPT ![target].no_std = TRUE]]
    ELSE ctx

\* lines 176-187
ConstraintNoStd(ctx, e, target) ==
    IF Contains(target, <<"-", "none", "-">>)
    THEN The({IF no_std(c.build, target) = Some(FALSE)
              THEN [c EXCEPT !.panic =
                       Panic("All the *-none-* targets are no-std targets", <<>>)]
              ELSE c :
                 c \in {DefaultNoStd(ctx, target)}})
    ELSE ctx

LibDir(root) == Join(root, Prog("lib"))
LibcA(root) == Join(LibDir(root), Name2("libc", "a"))
LibunwindA(root) == Join(LibDir(root), Name2("libunwind", "a"))

\* lines 193-197
\* (variant with a fault: no root is defaulted)
DefaultMuslRoot_skipped(ctx, target) == ctx
DefaultMuslRoot(ctx, target) ==
    IF IsNone(musl_root(ctx.build, target)) /\ ctx.build.build = target
    THEN [ctx EXCEPT !.build.target_config =
             [EnsureEntry(@, target) EXCEPT ![target].musl_root = Some(Dir("usr"))]]
    ELSE ctx

\* lines 198-214
\* (variant with a fault: libunwind.a is not looked for)
CheckMuslRoot_libc_only(c, e, root) ==
    IF IsSome(root)
    THEN IF ~Exists(e.fs, LibcA(Unwrap(root)))
         THEN [c EXCEPT !.panic =
                  Panic("couldn't find libc.a in musl dir", LibDir(Unwrap(root)))]
         ELSE c
    ELSE [c EXCEPT !.panic = Panic("musl-root must be specified", <<>>)]
CheckMuslRoot(c, e, root) ==
    IF IsSome(root)
    THEN IF ~Exists(e.fs, LibcA(Unwrap(root)))
         THEN [c EXCEPT !.panic =
                  Panic("couldn't find libc.a in musl dir", LibDir(Unwrap(root)))]
         ELSE IF ~Exists(e.fs, LibunwindA(Unwrap(root)))
         THEN [c EXCEPT !.panic =
                  Panic("couldn't find libunwind.a in musl dir", LibDir(Unwrap(root)))]
         ELSE c
    ELSE [c EXCEPT !.panic = Panic("musl-root must be specified", <<>>)]

\* lines 190-215
ConstraintMusl(ctx, e, target) ==
    IF Contains(target, <<"musl">>)
    THEN The({The({CheckMuslRoot(c, e, root) : root \in {musl_root(c.build, target)}}) :
                 c \in {DefaultMuslRoot(ctx, target)}})
    ELSE ctx

\* build_helper::output: panics unless the command ran and succeeded
output(proc) ==
    IF proc.started /\ proc.success
    THEN [stdout |-> proc.stdout, panic |-> None]
    ELSE [stdout |-> <<>>, panic |-> Panic("command did not execute successfully", <<>>)]

\* lines 217-236
ConstraintMsvc(ctx, e, target) ==
    IF Contains(target, <<"msvc">>)
    THEN The({IF IsSome(out.panic) THEN [ctx EXCEPT !.panic = out.panic]
              ELSE IF ~Contains(out.stdout, <<"Visual Studio">>)
              THEN [ctx EXCEPT !.panic =
                       Panic("cmake does not support Visual Studio generators", <<>>)]
              ELSE ctx :
                 out \in {output(e.cmake_help)}})
    ELSE ctx

\* a later constraint is looked at only if the earlier ones did not panic
Unless(c, next) == IF IsSome(c.panic) THEN c ELSE next

\* lines 169-237, one target: all four constraints, in this order
RuleConstraints(ctx, e, target) ==
    The({The({The({Unless(c3, ConstraintMsvc(c3, e, target)) :
                     c3 \in {Unless(c2, ConstraintMusl(c2, e, target))}}) :
                 c2 \in {Unless(c1, ConstraintNoStd(c1, e, target))}}) :
            c1 \in {ConstraintIos(ctx, e, target)}})

\* the closure `run`, lines 239-246: Err when the command cannot be started,
\* else the first line of its standard output, and a panic when there is none
run(proc) ==
    IF ~proc.started THEN [value |-> None, panic |-> None]
    ELSE IF proc.stdout = <<>>
    THEN [value |-> None, panic |-> Panic("lldb failed", <<>>)]
    ELSE [value |-> Some(proc.stdout[1]), panic |-> None]

\* lines 248-250
LldbPythonDir(c, e) ==
    IF IsSome(c.build.lldb_version)
    THEN The({IF IsSome(d.panic) THEN [c EXCEPT !.panic = d.panic]
              ELSE [c EXCEPT !.build.lldb_python_dir = d.value] :
                 d \in {run(e.lldb_python)}})
    ELSE c

\* lines 247-250
RuleLldb(ctx, e) ==
    The({IF IsSome(v.panic) THEN [ctx EXCEPT !.panic = v.panic]
         ELSE LldbPythonDir([ctx EXCEPT !.build.lldb_version = v.value], e) :
            v \in {run(e.lldb_version)}})

\* lines 252-254
\* (variant with a fault: the path found is stored in the configuration)
RuleCcache_stores_path(ctx, e) ==
    IF IsSome(ctx.build.ccache)
    THEN The({IF IsSome(r.panic) THEN r ELSE [r EXCEPT !.build.ccache = r.ret] :
                 r \in {Must(ctx, e, Unwrap(ctx.build.ccache))}})
    ELSE ctx
RuleCcache(ctx, e) ==
    IF IsSome(ctx.build.ccache) THEN Must(ctx, e, Unwrap(ctx.build.ccache)) ELSE ctx

\* lines 256-264; t!() panics when src/stage0.txt cannot be read
RuleStage0(ctx, e) ==
    IF ctx.build.channel = "stable"
    THEN IF IsNone(e.stage0)
         THEN [ctx EXCEPT !.panic = Panic("src/stage0.txt cannot be read", <<>>)]
         ELSE IF Contains(Unwrap(e.stage0), <<"\n", "dev:">>)
         THEN [ctx EXCEPT !.panic =
                  Panic("bootstrapping from a dev compiler in a stable release", <<>>)]
         ELSE ctx
    ELSE ctx

----------------------------------------------------------------------------
(* check() as a state machine: one step per rule, one per loop iteration    *)

RuleOrder ==
    <<"path", "git", "cmake", "ninja", "python", "nodejs", "gdb", "target_cc",
      "host_cxx", "filecheck", "constraints", "lldb", "ccache", "stage0">>

\* panic!() ends the process: nothing of check() runs after it
AfterStep_continue(panic, next) == next
AfterStep(panic, next) == IF IsSome(panic) THEN At("aborted", 0) ELSE next

Ctx ==
    [build |-> build, finder |-> Unwrap(cmd_finder), hist |-> hist,
     bl |-> building_llvm, ret |-> None, panic |-> None]

NoteRule(h, rule, panic) ==
    [h EXCEPT
        !.evaluated = IF @ # <<>> /\ @[Len(@)] = rule THEN @ ELSE Append(@, rule),
        !.naborts = IF IsSome(panic) THEN @ + 1 ELSE @,
        !.abort_at = IF IsSome(panic) THEN pc ELSE @]

Finish(rule, next, r) ==
    /\ build' = r.build
    /\ cmd_finder' = Some(r.finder)
    /\ building_llvm' = r.bl
    /\ abort' = IF IsSome(r.panic) THEN r.panic ELSE abort
    /\ pc' = AfterStep(r.panic, next)
    /\ hist' = NoteRule(r.hist, rule, r.panic)
    /\ UNCHANGED env

\* lines 72-81: rule 1, then Finder::new
CheckPath ==
    /\ pc.rule = "path"
    /\ \E r \in {RulePath([build |-> build, hist |-> hist, panic |-> None], env)} :
           /\ abort' = IF IsSome(r.panic) THEN r.panic ELSE abort
           /\ pc' = AfterStep(r.panic, At("git", 0))
           /\ cmd_finder' = IF IsSome(r.panic) THEN None ELSE Some(FinderNew(env))
           /\ hist' = [NoteRule(hist, "path", r.panic) EXCEPT
                          !.path_at_new = IF IsSome(r.panic) THEN @
                                          ELSE Some(FinderNew(env).path)]
    /\ UNCHANGED <<build, env, building_llvm>>

CheckGit ==
    pc.rule = "git" /\ \E r \in {RuleGit(Ctx, env)} : Finish("git", At("cmake", 0), r)
CheckCmake ==
    pc.rule = "cmake" /\ \E r \in {RuleCmake(Ctx, env)} : Finish("cmake", At("ninja", 0), r)
CheckNinja ==
    pc.rule = "ninja" /\ \E r \in {RuleNinja(Ctx, env)} : Finish("ninja", At("python", 0), r)
ResolvePython ==
    pc.rule = "python" /\ \E r \in {RulePython(Ctx, env)} : Finish("python", At("nodejs", 0), r)
ResolveNodejs ==
    pc.rule = "nodejs" /\ \E r \in {RuleNodejs(Ctx, env)} : Finish("nodejs", At("gdb", 0), r)
ResolveGdb ==
    pc.rule = "gdb" /\ \E r \in {RuleGdb(Ctx, env)} : Finish("gdb", At("target_cc", 1), r)

\* lines 135-149: the loop over build.targets
CheckTargetCc ==
    /\ pc.rule = "target_cc"
    /\ IF pc.i <= Len(build.targets)
       THEN \E r \in {RuleTargetCc(Ctx, env, build.targets[pc.i])} :
                Finish("target_cc", At("target_cc", pc.i + 1), r)
       ELSE Finish("target_cc", At("host_cxx", 1), Ctx)

\* lines 151-161: the loop over build.hosts
CheckHostCxx ==
    /\ pc.rule = "host_cxx"
    /\ IF pc.i <= Len(build.hosts)
       THEN \E r \in {RuleHostCxx(Ctx, env, build.hosts[pc.i])} :
                Finish("host_cxx", At("host_cxx", pc.i + 1), r)
       ELSE Finish("host_cxx", At("filecheck", 0), Ctx)

CheckFilecheck ==
    pc.rule = "filecheck" /\ \E r \in {RuleFilecheck(Ctx, env)} : Finish("filecheck", At("constraints", 1), r)

\* lines 169-237: the second loop over build.targets
\* (variant with a fault: the iOS constraint of every target is checked
\* before anything else, sub-rule by sub-rule)
CheckConstraints_ios_first ==
    /\ pc.rule = "constraints"
    /\ IF pc.i <= Len(build.targets)
       THEN \E r \in {IF /\ pc.i = 1
                         /\ \E j \in 1..Len(build.targets) :
                                IsSome(ConstraintIos(Ctx, env, build.targets[j]).panic)
                      THEN [Ctx EXCEPT !.panic =
                               Panic("the iOS target is only supported on macOS", <<>>)]
                      ELSE RuleConstraints(Ctx, env, build.targets[pc.i])} :
                Finish("constraints", At("constraints", pc.i + 1), r)
       ELSE Finish("constraints", At("lldb", 0), Ctx)
CheckConstraints ==
    /\ pc.rule = "constraints"
    /\ IF pc.i <= Len(build.targets)
       THEN \E r \in {RuleConstraints(Ctx, env, build.targets[pc.i])} :
                Finish("constraints", At("constraints", pc.i + 1), r)
       ELSE Finish("constraints", At("lldb", 0), Ctx)

LldbIntrospect ==
    pc.rule = "lldb" /\ \E r \in {RuleLldb(Ctx, env)} : Finish("lldb", At("ccache", 0), r)
CheckCcache ==
    pc.rule = "ccache" /\ \E r \in {RuleCcache(Ctx, env)} : Finish("ccache", At("stage0", 0), r)
CheckStage0 ==
    pc.rule = "stage0" /\ \E r \in {RuleStage0(Ctx, env)} : Finish("stage0", At("done", 0), r)

Next ==
    \/ CheckPath
    \/ CheckGit
    \/ CheckCmake
    \/ CheckNinja
    \/ ResolvePython
    \/ ResolveNodejs
    \/ ResolveGdb
    \/ CheckTargetCc
    \/ CheckHostCxx
    \/ CheckFilecheck
    \/ CheckConstraints
    \/ LldbIntrospect
    \/ CheckCcache
    \/ CheckStage0

----------------------------------------------------------------------------
(* The inputs of check().  Each class below varies the inputs of a group of *)
(* rules over all their combinations and keeps the others at values the     *)
(* remaining rules accept; InputsOrder makes every subset of the rules fail *)
(* together.                                                                *)

MaxTargets == 2

Lists(S, n) == UNION {[1..k -> S] : k \in 1..n}
If(flag, set) == IF flag THEN set ELSE {}
Bin(name) == P_BIN \o Prog(name)
Opt(name) == P_OPT \o Prog(name)

If1(flag, x) == IF flag THEN Some(x) ELSE None

Stage0Files_released == Some(<<"date:", " 2018-01-01", "\n", "rustc:", " beta">>)
Stage0Files_dev == Some(<<"date:", " 2018-01-01", "\n", "dev:", " 1">>)

PLAIN_PATH == Some(<<"/", "bin">>)
QUOTED_PATH == Some(<<QUOTE, "/", "bin", QUOTE>>)
LLVM_CONFIG == Dir("llvm") \o Prog("bin") \o Prog("llvm-config")
FILECHECK == Dir("llvm") \o Prog("bin") \o Prog("FileCheck")
P_MUSL == Dir("musl")
P_USR == Dir("usr")

\* a filesystem on which the base build passes: python is all it needs
PassFs == {Bin("python")}
PassEnv == [BaseEnv EXCEPT !.fs = PassFs]

HostRecords ==
    {None, Some(DefaultTarget), Some([DefaultTarget EXCEPT !.llvm_config = Some(LLVM_CONFIG)])}
WithRecord(tc, t, rec) == IF IsSome(rec) THEN (t :> Unwrap(rec)) @@ tc ELSE tc

\* rule 1 and rule 2
InputsPath ==
    \E g \in BOOLEAN, w \in BOOLEAN, p \in {PLAIN_PATH, QUOTED_PATH, None}, gp \in BOOLEAN :
        /\ build = [BaseBuild EXCEPT !.is_git = g]
        /\ env = [PassEnv EXCEPT !.windows = w, !.PATH = p,
                            !.fs = PassFs \cup If(gp, {Bin("git")})]

\* rules 2-4
InputsTools ==
    \E x \in [1..7 -> BOOLEAN], t \in {T_LINUX, T_MSVC}, rec \in HostRecords :
        /\ build = [BaseBuild EXCEPT
                !.is_git = x[1], !.sanitizers = x[3], !.ninja = x[5],
                !.hosts = <<t>>, !.targets = <<t>>, !.build = t,
                !.target_config = WithRecord(<<>>, t, rec)]
        /\ env = [PassEnv EXCEPT
                !.fs = PassFs \cup If(x[2], {Bin("git")}) \cup If(x[4], {Bin("cmake")})
                       \cup If(x[6], {Bin("ninja-build")}) \cup If(x[7], {Bin("ninja")})]

\* rule 5, python
InputsPython ==
    \E x \in [1..7 -> BOOLEAN] :
        /\ build = [BaseBuild EXCEPT !.python = If1(x[1], Opt("python"))]
        /\ env = [BaseEnv EXCEPT
                !.BOOTSTRAP_PYTHON = If1(x[2], Opt("bpython")),
                !.fs = If(x[3], {Opt("python")}) \cup If(x[4], {P_BIN \o Name2("python2", "7")})
                       \cup If(x[5], {Bin("python2")}) \cup If(x[6], {Bin("python")})
                       \cup If(x[7], {P_BIN \o Name2("python2", "exe")})]

\* rule 5, node and gdb
InputsNodeGdb ==
    \E x \in [1..7 -> BOOLEAN] :
        /\ build = [BaseBuild EXCEPT !.nodejs = If1(x[1], Opt("node")),
                              !.gdb = If1(x[5], Opt("gdb"))]
        /\ env = [PassEnv EXCEPT
                !.fs = PassFs \cup If(x[2], {Opt("node")}) \cup If(x[3], {Bin("node")})
                       \cup If(x[4], {Bin("nodejs")}) \cup If(x[6], {Opt("gdb")})
                       \cup If(x[7], {Bin("gdb")})]

CcOf == [t \in AllTargets |->
            IF t = T_MSVC THEN Prog("cl") ELSE IF t = T_EMSCRIPTEN THEN Prog("emcc")
            ELSE Prog("cc")]

\* rules 6 and 7
InputsToolchain ==
    \E x \in [1..8 -> BOOLEAN], ts \in Lists({T_LINUX, T_MSVC, T_EMSCRIPTEN}, MaxTargets) :
        /\ build = [BaseBuild EXCEPT
                !.targets = ts, !.hosts = ts, !.build = ts[1],
                !.dry_run = x[1], !.use_jemalloc = x[2], !.cc = CcOf,
                !.cxx = [t \in AllTargets |->
                            IF x[8] /\ t = T_MSVC THEN None ELSE Some(Prog("c++"))],
                !.ar = [t \in AllTargets |-> If1(x[3], Prog("ar"))]]
        /\ env = [PassEnv EXCEPT
                !.fs = PassFs \cup If(x[4], {Bin("cc")}) \cup If(x[5], {Bin("cl")})
                       \cup If(x[6], {Bin("ar")}) \cup If(x[7], {Bin("c++")})]

\* rule 8
InputsFilecheck ==
    \E c \in BOOLEAN, f \in BOOLEAN, rec \in HostRecords :
        /\ build = [BaseBuild EXCEPT !.codegen_tests = c,
                              !.target_config = WithRecord(<<>>, T_LINUX, rec)]
        /\ env = [PassEnv EXCEPT !.fs = PassFs \cup {Bin("cmake")} \cup If(f, {FILECHECK})]

\* rule 9, no-std
InputsNoStd ==
    \E ts \in Lists({T_LINUX, T_NONE}, MaxTargets), rec \in HostRecords,
       key \in {"absent", "false", "true"} :
        /\ key = "true" => IsSome(rec)
        /\ build = [BaseBuild EXCEPT
                !.targets = ts,
                !.target_config =
                    IF key = "absent" THEN WithRecord(<<>>, T_NONE, rec)
                    ELSE (T_NONE :> [OrElse(rec, Some(DefaultTarget))[1] EXCEPT
                                        !.no_std = (key = "true")])]
        /\ env = [PassEnv EXCEPT !.no_std_keys = IF key = "absent" THEN {} ELSE {T_NONE}]

MuslFiles(root, c, u) == If(c, {LibcA(root)}) \cup If(u, {LibunwindA(root)})

\* rule 9, musl
InputsMusl ==
    \E x \in [1..7 -> BOOLEAN], bt \in {T_LINUX, T_MUSL},
       ts \in Lists({T_LINUX, T_MUSL, T_IOS}, MaxTargets) :
        /\ build = [BaseBuild EXCEPT
                !.targets = ts, !.build = bt, !.hosts = <<bt>>,
                !.musl_root = If1(x[1], P_MUSL),
                !.target_config =
                    WithRecord(<<>>, T_MUSL,
                               If1(x[2], [DefaultTarget EXCEPT !.musl_root = If1(x[3], P_MUSL)]))]
        /\ env = [PassEnv EXCEPT
                !.fs = PassFs \cup MuslFiles(P_USR, x[4], x[5]) \cup MuslFiles(P_MUSL, x[6], x[7])]

NO_VS == Ran(TRUE, <<"Generators", "Unix Makefiles">>)

\* rule 9, several targets, each kind of target failing or not
InputsConstraints ==
    \E x \in [1..4 -> BOOLEAN], ts \in Lists({T_NONE, T_MUSL, T_IOS, T_MSVC}, MaxTargets) :
        /\ build = [BaseBuild EXCEPT
                !.targets = ts, !.build = IF x[1] THEN T_LINUX ELSE T_DARWIN,
                !.hosts = <<IF x[1] THEN T_LINUX ELSE T_DARWIN>>,
                !.musl_root = Some(P_MUSL),
                !.target_config = WithRecord(<<>>, T_NONE, If1(x[2], DefaultTarget))]
        /\ env = [PassEnv EXCEPT
                !.fs = PassFs \cup MuslFiles(P_MUSL, ~x[3], ~x[3]),
                !.no_std_keys = If(x[2], {T_NONE}),
                !.cmake_help = IF x[4] THEN NO_VS ELSE @]

LldbOutcomes ==
    {NotStarted, Ran(FALSE, <<>>), Ran(FALSE, <<"usage">>), Ran(TRUE, <<>>),
     Ran(TRUE, <<"lldb-350", "more">>)}

Stage0Files ==
    {None,
     Some(<<"date:", " 2018-01-01", "\n", "rustc:", " beta">>),
     Some(<<"date:", " 2018-01-01", "\n", "dev:", " 1">>),
     Some(<<"dev:", " 1", "\n", "date:", " 2018-01-01">>)}

\* rules 10-12
InputsTail ==
    \E x \in [1..3 -> BOOLEAN], lv \in LldbOutcomes, lp \in {NotStarted, Ran(TRUE, <<>>), Ran(TRUE, <<"/usr/lib/python2.7">>)}, st \in Stage0Files :
        /\ build = [BaseBuild EXCEPT !.ccache = If1(x[1], Prog("ccache")),
                              !.channel = IF x[3] THEN "stable" ELSE "nightly"]
        /\ env = [PassEnv EXCEPT
                !.fs = PassFs \cup If(x[2], {Bin("ccache")}),
                !.lldb_version = lv, !.lldb_python = lp, !.stage0 = st]

\* every rule made to fail (x[k] true) or to pass, in all combinations.  The
\* second host carries the in-tree LLVM build, the build host an external one.
InputsOrder ==
    \E x \in [1..14 -> BOOLEAN] :
        /\ build = [BaseBuild EXCEPT
                !.is_git = TRUE, !.ninja = TRUE, !.dry_run = FALSE,
                !.hosts = <<T_LINUX, T_DARWIN>>, !.targets = <<T_LINUX, T_NONE>>,
                !.target_config =
                    WithRecord((T_LINUX :> [DefaultTarget EXCEPT !.llvm_config = Some(LLVM_CONFIG)])
                               @@ (T_DARWIN :> DefaultTarget),
                               T_NONE, If1(x[11], DefaultTarget)),
                !.nodejs = If1(x[6], Opt("node")), !.gdb = If1(x[7], Opt("gdb")),
                !.codegen_tests = TRUE, !.ccache = Some(Prog("ccache")),
                !.channel = "stable"]
        /\ env = [BaseEnv EXCEPT
                !.windows = x[1], !.PATH = IF x[1] THEN QUOTED_PATH ELSE PLAIN_PATH,
                !.fs = If(~x[2], {Bin("git")}) \cup If(~x[3], {Bin("cmake")})
                       \cup If(~x[4], {Bin("ninja")}) \cup If(~x[5], {Bin("python")})
                       \cup If(~x[8], {Bin("cc")}) \cup If(~x[9], {Bin("c++")})
                       \cup If(~x[10], {FILECHECK}) \cup If(~x[13], {Bin("ccache")}),
                !.lldb_version = IF x[12] THEN Ran(TRUE, <<>>) ELSE Ran(TRUE, <<"lldb-350">>),
                !.lldb_python = Ran(TRUE, <<"/usr/lib/python2.7">>),
                !.no_std_keys = If(x[11], {T_NONE}),
                !.stage0 = IF x[14] THEN Stage0Files_dev ELSE Stage0Files_released]

\* the dry-run scenario: PATH is /bin and git is the only program there
InputsDryRun ==
    \E x \in [1..6 -> BOOLEAN], t \in {T_LINUX, T_MSVC, T_MUSL, T_NONE}, rec \in HostRecords :
        /\ build = [BaseBuild EXCEPT
                !.is_git = TRUE, !.dry_run = x[1], !.sanitizers = x[2],
                !.codegen_tests = x[3], !.python = If1(x[4], Opt("python")),
                !.hosts = <<t>>, !.targets = <<t>>, !.build = t,
                !.target_config = WithRecord(<<>>, t, rec),
                !.channel = IF x[6] THEN "stable" ELSE "nightly"]
        /\ env = [BaseEnv EXCEPT
                !.fs = {Bin("git")}, !.cmake_help = NotStarted,
                !.BOOTSTRAP_PYTHON = If1(x[5], Opt("bpython"))]

Inputs ==
    \/ InputsPath \/ InputsTools \/ InputsPython \/ InputsNodeGdb
    \/ InputsToolchain \/ InputsFilecheck \/ InputsNoStd \/ InputsMusl
    \/ InputsConstraints \/ InputsTail \/ InputsOrder \/ InputsDryRun

Init ==
    /\ Inputs
    /\ pc = At("path", 0)
    /\ cmd_finder = None
    /\ abort = None
    /\ building_llvm = FALSE
    /\ hist = InitHist(build)

Spec == Init /\ [][Next]_vars

----------------------------------------------------------------------------
(* Properties of the finder, checked under SpecFinder *)

Cache == Unwrap(cmd_finder).cache
Last == Unwrap(hist.last)
Snapshot == Unwrap(hist.path_at_new)

\* what a search of the filesystem as it is now would return
SearchNow(path, cmd) == Search(env.fs, split_paths(env.windows, path), cmd)

\* C2: every query of a name after the first returns what the first returned,
\* and the filesystem is searched at most once per name, whatever happens to
\* the filesystem between the queries.
C2_Memoized ==
    /\ \A cmd \in DOMAIN hist.probes : hist.probes[cmd] <= 1
    /\ DOMAIN hist.first = DOMAIN hist.probes
    /\ IsSome(hist.last) => Last.result = hist.first[Last.cmd]
    /\ IsSome(cmd_finder) =>
          /\ DOMAIN Cache = DOMAIN hist.first
          /\ \A cmd \in DOMAIN Cache : Cache[cmd] = hist.first[cmd]

\* a repeated query answered from the cache although the filesystem would by
\* now give another answer
C2_Witness ==
    /\ IsSome(hist.last)
    /\ hist.calls >= 2
    /\ ~Last.probed
    /\ SearchNow(Snapshot, Last.cmd) # Last.result

\* C3: the finder's search path is the PATH read by Finder::new; no call
\* changes it, and every search uses it, whatever the live PATH is by then.
C3_SnapshotKept ==
    /\ [](IsSome(cmd_finder) => Unwrap(cmd_finder).path = Snapshot)
    /\ [][(hist'.calls = hist.calls + 1 /\ Unwrap(hist'.last).probed) =>
              Unwrap(hist'.last).result = SearchNow(Snapshot, Unwrap(hist'.last).cmd)]_vars

\* a first query of a name, made after PATH was changed, whose answer is not
\* the one the live PATH would give
C3_Witness ==
    /\ IsSome(hist.last)
    /\ Last.probed
    /\ Last.live # Some(Snapshot)
    /\ Last.live = env.PATH
    /\ IsSome(Last.live)
    /\ Last.result = SearchNow(Snapshot, Last.cmd)
    /\ Last.result # SearchNow(Unwrap(Last.live), Last.cmd)

\* C5: maybe_have never panics; must_have panics exactly when maybe_have of
\* the same name gives None, the message names that command, and otherwise
\* must_have returns the path maybe_have returns.
C5_RequireIffAbsent ==
    /\ IsSome(abort) <=> pc.rule = "aborted"
    /\ IsSome(abort) => IsSome(hist.last) /\ abort = Last.panic
    /\ IsSome(hist.last) =>
          /\ Last.op = "maybe_have" => IsNone(Last.panic) /\ IsNone(abort)
          /\ Last.op = "must_have" =>
                /\ IsSome(Last.panic) <=> IsNone(Cache[Last.cmd])
                /\ IsSome(Last.panic) =>
                      /\ Last.panic = Some(MissingCommand(Last.cmd))
                      /\ abort = Last.panic
                /\ IsNone(Last.panic) =>
                      /\ IsSome(Last.result)
                      /\ Last.result = Cache[Last.cmd]

\* must_have panicked on a name that maybe_have had already reported absent
C5_Witness ==
    /\ pc.rule = "aborted"
    /\ hist.calls >= 2
    /\ Last.op = "must_have"
    /\ ~Last.probed
    /\ abort = Some(MissingCommand(Last.cmd))

----------------------------------------------------------------------------
(* Properties of check(), checked under Spec *)

\* the configuration check() was called with
Given == hist.init_build

Evaluated(rule) == \E k \in 1..Len(hist.evaluated) : hist.evaluated[k] = rule

\* the rule has run, to its end or to its panic
Done(rule) == Evaluated(rule) /\ pc.rule # rule

AbortedAt(rule) == pc.rule = "aborted" /\ hist.abort_at.rule = rule

Ended == pc.rule \in {"done", "aborted"}

\* what a search of the PATH check() started with gives for cmd
OnPath(cmd) == Search(env.fs, split_paths(env.windows, FinderNew(env).path), cmd)

\* iteration k of the loop of rule 9 has run, to its end or to its panic
ConstraintsRan(k) ==
    \/ pc.rule = "constraints" /\ pc.i > k
    \/ pc.rule \in {"lldb", "ccache", "stage0", "done"}
    \/ /\ pc.rule = "aborted"
       /\ \/ hist.abort_at.rule \in {"lldb", "ccache", "stage0"}
          \/ hist.abort_at.rule = "constraints" /\ hist.abort_at.i >= k

AbortedAtTarget(k) == AbortedAt("constraints") /\ hist.abort_at.i = k

\* C1: the rules run in the fixed order and the first failure aborts the whole
\* check: at most one abort per run, nothing runs after it, the rules
\* evaluated are a prefix of the order ending at the aborting rule.  When
\* rule 1 passes and git is required and missing, the run aborts at rule 2
\* with the missing-command message for git, whatever else is inconsistent,
\* and the configuration is still the given one.
C1_FirstFailureAborts ==
    /\ hist.naborts <= 1
    /\ IsSome(abort) <=> pc.rule = "aborted"
    /\ hist.evaluated = SubSeq(RuleOrder, 1, Len(hist.evaluated))
    /\ pc.rule = "aborted" =>
          /\ hist.naborts = 1
          /\ hist.abort_at.rule = hist.evaluated[Len(hist.evaluated)]
    /\ pc.rule = "done" => hist.naborts = 0 /\ hist.evaluated = RuleOrder
    /\ (Done("path") /\ ~AbortedAt("path") /\ Given.is_git /\ IsNone(OnPath(Prog("git")))) =>
          /\ pc.rule \in {"git", "aborted"}
          /\ hist.evaluated \in {<<"path">>, <<"path", "git">>}
          /\ build = Given
          /\ pc.rule = "aborted" =>
                /\ AbortedAt("git")
                /\ abort = Some(MissingCommand(Prog("git")))

\* the run aborted on the missing git although the stage0 file, the no-std
\* setting and the lldb output are inconsistent as well
C1_Witness ==
    /\ AbortedAt("git")
    /\ abort = Some(MissingCommand(Prog("git")))
    /\ build = Given
    /\ Given.channel = "stable"
    /\ env.stage0 = Stage0Files_dev
    /\ no_std(Given, T_NONE) = Some(FALSE)
    /\ env.lldb_version = Ran(TRUE, <<>>)

PYTHON27 == Name2("python2", "7")

\* C4: the interpreter is the first of: the configured path, validated as a
\* required command; BOOTSTRAP_PYTHON, taken as it is; python2.7, python2 and
\* python on the search path, the last one required.  A later step is tried
\* only when every earlier one gave nothing.
C4_PythonChain ==
    /\ Done("python") =>
          IF IsSome(Given.python)
          THEN IF IsSome(OnPath(Unwrap(Given.python)))
               THEN ~AbortedAt("python") /\ build.python = OnPath(Unwrap(Given.python))
               ELSE /\ AbortedAt("python")
                    /\ abort = Some(MissingCommand(Unwrap(Given.python)))
          ELSE IF IsSome(env.BOOTSTRAP_PYTHON)
          THEN ~AbortedAt("python") /\ build.python = env.BOOTSTRAP_PYTHON
          ELSE IF IsSome(OnPath(PYTHON27))
          THEN ~AbortedAt("python") /\ build.python = OnPath(PYTHON27)
          ELSE IF IsSome(OnPath(Prog("python2")))
          THEN ~AbortedAt("python") /\ build.python = OnPath(Prog("python2"))
          ELSE IF IsSome(OnPath(Prog("python")))
          THEN ~AbortedAt("python") /\ build.python = OnPath(Prog("python"))
          ELSE AbortedAt("python") /\ abort = Some(MissingCommand(Prog("python")))
    /\ PYTHON27 \in DOMAIN hist.probes =>
          IsNone(Given.python) /\ IsNone(env.BOOTSTRAP_PYTHON)
    /\ Prog("python2") \in DOMAIN hist.probes =>
          /\ PYTHON27 \in DOMAIN hist.probes
          /\ IsNone(OnPath(PYTHON27))
    /\ Prog("python") \in DOMAIN hist.probes =>
          /\ Prog("python2") \in DOMAIN hist.probes
          /\ IsNone(OnPath(Prog("python2")))

\* python2.7 and python are both on the path and python2.7 was taken, python
\* never looked for
C4_Witness ==
    /\ pc.rule = "done"
    /\ IsNone(Given.python)
    /\ IsNone(env.BOOTSTRAP_PYTHON)
    /\ {Bin("python"), P_BIN \o PYTHON27} \subseteq env.fs
    /\ build.python = Some(P_BIN \o PYTHON27)
    /\ Prog("python") \notin DOMAIN hist.probes

\* the scenario of the dry run: PATH is /bin, /bin/git is the only program
\* there is (so neither lldb nor cmake can be started), a git checkout, no
\* LLVM to build, one target that is the one host, dry-run mode, channel
\* nightly; what the scenario does not mention is not configured
DryRunScenario ==
    /\ ~env.windows
    /\ env.PATH = PLAIN_PATH
    /\ env.fs = {Bin("git")}
    /\ env.lldb_version = NotStarted
    /\ env.cmake_help = NotStarted
    /\ Given.is_git
    /\ ~BuildingLlvm(Given)
    /\ Len(Given.targets) = 1
    /\ Given.hosts = Given.targets
    /\ Given.build = Given.targets[1]
    /\ Given.dry_run
    /\ Given.channel = "nightly"
    /\ IsNone(Given.python) /\ IsNone(Given.nodejs) /\ IsNone(Given.gdb)
    /\ IsNone(Given.ccache)
    /\ ~Given.sanitizers
    /\ ~Given.codegen_tests

\* no field of the configuration differs from the given one, the interpreter
\* and debugger fields aside
OnlyToolFieldsChanged ==
    [build EXCEPT !.python = Given.python, !.nodejs = Given.nodejs, !.gdb = Given.gdb,
                  !.lldb_version = Given.lldb_version,
                  !.lldb_python_dir = Given.lldb_python_dir] = Given

\* C6 as the specification states it: in the dry-run scenario check()
\* completes without aborting and changes only interpreter/debugger fields.
C6_DryRunCompletes ==
    (DryRunScenario /\ Ended) => (pc.rule = "done" /\ OnlyToolFieldsChanged)

\* a triple none of the per-target constraints of rule 9 applies to
PlainTarget(t) ==
    \A part \in {<<"msvc">>, <<"musl">>, <<"-", "none", "-">>, <<"apple", "-", "ios">>} :
        ~Contains(t, part)

\* C6, amended: in the dry-run scenario with, in addition, BOOTSTRAP_PYTHON
\* set and a target that is neither msvc, musl, bare-metal nor iOS, check()
\* completes without aborting and changes only interpreter/debugger fields;
\* the interpreter is the one BOOTSTRAP_PYTHON names.
C6_DryRunCompletesWithPython ==
    (/\ DryRunScenario
     /\ IsSome(env.BOOTSTRAP_PYTHON)
     /\ PlainTarget(Given.targets[1])
     /\ Ended) =>
        (pc.rule = "done" /\ OnlyToolFieldsChanged /\ build.python = env.BOOTSTRAP_PYTHON)

\* the dry run completed with no compiler anywhere
C6_Witness ==
    /\ DryRunScenario
    /\ IsSome(env.BOOTSTRAP_PYTHON)
    /\ PlainTarget(Given.targets[1])
    /\ pc.rule = "done"
    /\ build.python = env.BOOTSTRAP_PYTHON
    /\ IsNone(OnPath(Given.cc[Given.targets[1]]))
    /\ Evaluated("target_cc")

\* a line of the text starts with the dev: marker
HasDevLine(text) ==
    \E i \in 1..Len(text) : text[i] = "dev:" /\ (i = 1 \/ text[i - 1] = "\n")

\* C7: on the stable channel the check aborts when src/stage0.txt has a line
\* carrying the dev: marker; on any other channel this rule never aborts.
C7_StableRejectsDev ==
    /\ (/\ Done("stage0")
        /\ Given.channel = "stable"
        /\ IsSome(env.stage0)
        /\ HasDevLine(Unwrap(env.stage0))) => AbortedAt("stage0")
    /\ AbortedAt("stage0") => Given.channel = "stable"

\* C8: a musl target that is the build triple and has no root, per-target or
\* global, gets the per-target root /usr before the archive checks, which is
\* then checked like a configured one: without /usr/lib/libc.a the run aborts
\* and the diagnostic names that exact missing path, /usr/lib/libc.a.  No
\* root is invented for a musl target that is not the build triple.
C8_MuslRootDefault ==
    \A k \in 1..Len(Given.targets) :
        LET t == Given.targets[k]
        IN  (/\ Contains(t, <<"musl">>)
             /\ IsNone(musl_root(Given, t))
             /\ ConstraintsRan(k)) =>
                IF t = Given.build
                THEN /\ t \in DOMAIN build.target_config
                     /\ build.target_config[t].musl_root = Some(Dir("usr"))
                     /\ build.musl_root = Given.musl_root
                     /\ IF ~Exists(env.fs, LibcA(Dir("usr")))
                        THEN /\ AbortedAtTarget(k)
                             /\ abort = Panic("couldn't find libc.a in musl dir",
                                              LibcA(Dir("usr")))
                        ELSE IF ~Exists(env.fs, LibunwindA(Dir("usr")))
                        THEN /\ AbortedAtTarget(k)
                             /\ abort = Panic("couldn't find libunwind.a in musl dir",
                                              LibDir(Dir("usr")))
                        ELSE ~AbortedAtTarget(k)
                ELSE /\ AbortedAtTarget(k)
                     /\ abort = Panic("musl-root must be specified", <<>>)
                     /\ build.target_config = Given.target_config

\* the build triple is a musl target without any root, /usr was filled in
\* and the run aborted because /usr/lib/libc.a is missing; the diagnostic
\* holds the directory /usr/lib
C8_Witness ==
    /\ AbortedAt("constraints")
    /\ abort = Panic("couldn't find libc.a in musl dir", LibDir(Dir("usr")))
    /\ Given.build = T_MUSL
    /\ T_MUSL \notin DOMAIN Given.target_config
    /\ IsNone(Given.musl_root)
    /\ build.target_config[T_MUSL].musl_root = Some(Dir("usr"))

\* C9: a *-none-* target whose no-std setting was never written (no record,
\* or a record without the key) is given no-std = true and does not abort; one
\* whose setting is explicitly false aborts; so after a successful run every
\* such target has no-std = true.
C9_NoStdDefaulted ==
    /\ \A k \in 1..Len(Given.targets) :
          LET t == Given.targets[k]
          IN  (Contains(t, <<"-", "none", "-">>) /\ ConstraintsRan(k)) =>
                 IF t \in env.no_std_keys /\ ~Given.target_config[t].no_std
                 THEN AbortedAtTarget(k)
                 ELSE /\ ~AbortedAtTarget(k)
                      /\ no_std(build, t) = Some(TRUE)
    /\ pc.rule = "done" =>
          \A k \in 1..Len(Given.targets) :
              Contains(Given.targets[k], <<"-", "none", "-">>) =>
                  no_std(build, Given.targets[k]) = Some(TRUE)

\* the query ran, succeeded and printed a line
Answered(proc) == proc.started /\ proc.success /\ proc.stdout # <<>>

\* C10: the lldb introspection never aborts the check; a failed query leaves
\* its field unresolved, and the Python directory is asked for only when the
\* version was resolved.
C10_LldbBestEffort ==
    /\ ~AbortedAt("lldb")
    /\ Done("lldb") =>
          /\ ~Answered(env.lldb_version) => IsNone(build.lldb_version)
          /\ ~Answered(env.lldb_python) => IsNone(build.lldb_python_dir)
          /\ IsNone(build.lldb_version) => IsNone(build.lldb_python_dir)

\* the step changes no field of the configuration other than those named
OnlyFields(fields) ==
    \A f \in DOMAIN build : f \notin fields => build'[f] = build[f]

\* C11 as the specification states it: only the ninja rule, the jemalloc
\* rule and the per-target constraints change the configuration; every other
\* rule leaves every field unchanged.
C11_FrameAsStated ==
    [][/\ pc.rule \notin {"ninja", "host_cxx", "constraints"} => build' = build
       /\ pc.rule = "ninja" => OnlyFields({"ninja"})
       /\ pc.rule = "host_cxx" => OnlyFields({"use_jemalloc"})
       /\ pc.rule = "constraints" => OnlyFields({"target_config"})]_vars

\* C11, amended: the ninja rule changes only useNinja, the per-host rule only
\* useJemalloc, the per-target constraints only the per-target records, the
\* python/node/gdb resolution only its own path field and the lldb
\* introspection only lldbVersion and lldbPythonDir; the rules PATH, git,
\* cmake, per-target C toolchain, FileCheck, ccache and stable-channel guard
\* leave every field unchanged.
C11_Frame ==
    [][/\ pc.rule \in {"path", "git", "cmake", "target_cc", "filecheck", "ccache", "stage0"}
             => build' = build
       /\ pc.rule = "ninja" => OnlyFields({"ninja"})
       /\ pc.rule = "host_cxx" => OnlyFields({"use_jemalloc"})
       /\ pc.rule = "constraints" => OnlyFields({"target_config"})
       /\ pc.rule = "python" => OnlyFields({"python"})
       /\ pc.rule = "nodejs" => OnlyFields({"nodejs"})
       /\ pc.rule = "gdb" => OnlyFields({"gdb"})
       /\ pc.rule = "lldb" => OnlyFields({"lldb_version", "lldb_python_dir"})]_vars

\* a completed run that resolved python, gdb and the lldb version, with a
\* configured ccache found, and wrote nothing else
C11_Witness ==
    /\ pc.rule = "done"
    /\ build.python # Given.python
    /\ IsSome(build.lldb_version) /\ IsNone(Given.lldb_version)
    /\ IsSome(Given.ccache)
    /\ OnlyToolFieldsChanged

\* the match policy as stated: the suffix is appended to the whole name
StatedCandidate(fs, dir, cmd) ==
    \/ IsFile(fs, Join(dir, cmd))
    \/ Exists(fs, PushExe(Join(dir, cmd)))
    \/ Exists(fs, Join(Join(dir, cmd), PushExe(cmd)))

StatedSearch(fs, dirs, cmd) ==
    IF \E i \in 1..Len(dirs) : StatedCandidate(fs, dirs[i], cmd)
    THEN LET k == CHOOSE i \in 1..Len(dirs) :
                      /\ StatedCandidate(fs, dirs[i], cmd)
                      /\ \A j \in 1..(i - 1) : ~StatedCandidate(fs, dirs[j], cmd)
         IN  Some(Join(dirs[k], cmd))
    ELSE None

\* C12: on a memo miss maybe_have(name) returns D/name for the first
\* directory D of the snapshot where D/name is a regular file, or D/name with
\* .exe appended to the whole name exists (also when the name has a dot), or
\* D/name/name.exe exists, and not-found exactly when no directory does.
\* Checked under SpecFinder.
C12_MatchPolicy ==
    [][(hist'.calls = hist.calls + 1 /\ Unwrap(hist'.last).probed) =>
          Unwrap(hist'.last).result =
              StatedSearch(env.fs, split_paths(env.windows, Snapshot),
                           Unwrap(hist'.last).cmd)]_vars

\* some target has no llvm-config path, a target without a record included
SomeTargetBuildsLlvm ==
    \E k \in 1..Len(Given.targets) :
        \/ Given.targets[k] \notin DOMAIN Given.target_config
        \/ IsNone(Given.target_config[Given.targets[k]].llvm_config)

\* C13: cmake is required (looked for, and the run aborts when it is not on
\* the path) if and only if sanitizers are enabled or some target has no
\* llvm-config path, a target without any per-target record counting as
\* having none.
C13_CmakeRequired ==
    Done("cmake") =>
        /\ Prog("cmake") \in DOMAIN hist.probes <=>
              (Given.sanitizers \/ SomeTargetBuildsLlvm)
        /\ AbortedAt("cmake") <=>
              /\ Given.sanitizers \/ SomeTargetBuildsLlvm
              /\ IsNone(OnPath(Prog("cmake")))
        /\ AbortedAt("cmake") => abort = Some(MissingCommand(Prog("cmake")))

\* the ninja rule with ninja requested, run exactly when `runs`: ninja-build
\* is looked for first, ninja only when ninja-build is absent, and the run
\* aborts, naming ninja, exactly when neither is found
NinjaRequestRule(runs) ==
    Done("ninja") =>
        /\ Prog("ninja-build") \in DOMAIN hist.probes <=> (runs /\ Given.ninja)
        /\ (runs /\ Given.ninja) =>
              /\ Prog("ninja") \in DOMAIN hist.probes <=> IsNone(OnPath(Prog("ninja-build")))
              /\ AbortedAt("ninja") <=>
                    /\ IsNone(OnPath(Prog("ninja-build")))
                    /\ IsNone(OnPath(Prog("ninja")))
        /\ AbortedAt("ninja") =>
              /\ runs /\ Given.ninja
              /\ abort = Some(MissingCommand(Prog("ninja")))

\* C14 as the specification states it: the ninja rule runs exactly when the
\* cmake rule triggered (LLVM to build or sanitizers enabled); with ninja
\* requested ninja-build is queried first and ninja required only if it is
\* absent.
C14_NinjaWhenCmake ==
    NinjaRequestRule(Given.sanitizers \/ BuildingLlvm(Given))

\* C14, amended: the ninja rule runs exactly when LLVM is being built (some
\* host's record has no llvm-config), whether or not sanitizers made cmake
\* required; with ninja requested ninja-build is queried first and ninja is
\* required only if ninja-build is absent, so the run aborts at this rule if
\* and only if neither is found, and the abort names ninja.
C14_NinjaWhenBuildingLlvm ==
    NinjaRequestRule(BuildingLlvm(Given))

\* ninja was requested, ninja-build is absent, and ninja was found
C14_Witness ==
    /\ Done("ninja") /\ ~AbortedAt("ninja")
    /\ Given.ninja /\ BuildingLlvm(Given)
    /\ hist.first[Prog("ninja-build")] = None
    /\ IsSome(hist.first[Prog("ninja")])

\* the conditions of the silent upgrade
NinjaUpgrade ==
    /\ BuildingLlvm(Given)
    /\ ~Given.ninja
    /\ Contains(Given.build, <<"msvc">>)
    /\ IsSome(OnPath(Prog("ninja")))

\* C15: useNinja changes only from false to true, and only when the ninja
\* rule runs, ninja was not requested, the build host is MSVC-flavoured and
\* ninja is found; otherwise it keeps its initial value, and a missing ninja
\* in this branch never aborts.
C15_NinjaUpgrade ==
    /\ build.ninja = IF Done("ninja") THEN (Given.ninja \/ NinjaUpgrade) ELSE Given.ninja
    /\ AbortedAt("ninja") => Given.ninja
    /\ (Done("ninja") /\ BuildingLlvm(Given) /\ ~Given.ninja) =>
          (Prog("ninja") \in DOMAIN hist.probes <=> Contains(Given.build, <<"msvc">>))

\* a completed run on an MSVC build host that switched ninja on
C15_Witness ==
    /\ pc.rule = "done"
    /\ ~Given.ninja
    /\ build.ninja
    /\ Contains(Given.build, <<"msvc">>)

\* iteration k of the loop over the hosts has run, to its end or to its panic
HostsRan(k) ==
    \/ pc.rule = "host_cxx" /\ pc.i > k
    \/ pc.rule \in {"filecheck", "constraints", "lldb", "ccache", "stage0", "done"}
    \/ /\ pc.rule = "aborted"
       /\ \/ hist.abort_at.rule \in {"filecheck", "constraints", "lldb", "ccache", "stage0"}
          \/ hist.abort_at.rule = "host_cxx" /\ hist.abort_at.i >= k

AbortedAtHost(k) == AbortedAt("host_cxx") /\ hist.abort_at.i = k

\* C16: a host whose triple contains msvc switches useJemalloc off, whatever
\* it was and in a dry run too, so it is false whenever check() completes
\* with such a host; without one it keeps its initial value.  Outside a dry
\* run each host's C++ compiler is required: the run gets past a host only
\* when the compiler is configured and found.
C16_MsvcJemalloc ==
    /\ build.use_jemalloc =
          IF \E k \in 1..Len(Given.hosts) :
                 /\ HostsRan(k) /\ ~AbortedAtHost(k)
                 /\ Contains(Given.hosts[k], <<"msvc">>)
          THEN FALSE ELSE Given.use_jemalloc
    /\ pc.rule = "done" =>
          build.use_jemalloc =
              IF \E k \in 1..Len(Given.hosts) : Contains(Given.hosts[k], <<"msvc">>)
              THEN FALSE ELSE Given.use_jemalloc
    /\ Given.dry_run => ~AbortedAt("host_cxx")
    /\ ~Given.dry_run =>
          \A k \in 1..Len(Given.hosts) :
              HostsRan(k) =>
                  LET cxx == Given.cxx[Given.hosts[k]]
                  IN  /\ AbortedAtHost(k) <=> (IsNone(cxx) \/ IsNone(OnPath(Unwrap(cxx))))
                      /\ (AbortedAtHost(k) /\ IsSome(cxx)) =>
                             abort = Some(MissingCommand(Unwrap(cxx)))
                      /\ ~AbortedAtHost(k) => Unwrap(cxx) \in DOMAIN hist.probes

\* a dry run with an MSVC host completed and switched jemalloc off
C16_Witness ==
    /\ pc.rule = "done"
    /\ Given.dry_run
    /\ Given.use_jemalloc
    /\ ~build.use_jemalloc
    /\ \E k \in 1..Len(Given.hosts) : Contains(Given.hosts[k], <<"msvc">>)

\* iteration k of the loop of rule 6 has run, to its end or to its panic
TargetsRan(k) ==
    \/ pc.rule = "target_cc" /\ pc.i > k
    \/ pc.rule \in {"host_cxx", "filecheck", "constraints", "lldb", "ccache",
                    "stage0", "done"}
    \/ /\ pc.rule = "aborted"
       /\ \/ hist.abort_at.rule \in {"host_cxx", "filecheck", "constraints", "lldb",
                                     "ccache", "stage0"}
          \/ hist.abort_at.rule = "target_cc" /\ hist.abort_at.i >= k

AbortedAtTargetCc(k) == AbortedAt("target_cc") /\ hist.abort_at.i = k

\* C17: outside a dry run the check gets past a target of rule 6 that is not
\* an emscripten one only when its C compiler is found and, if an archiver is
\* configured for it, the archiver too; the abort names the compiler, else
\* the archiver.  Emscripten targets, and every target in a dry run, never
\* abort here, and the targets are checked in their configured order.
C17_TargetToolchain ==
    \A k \in 1..Len(Given.targets) :
        LET t == Given.targets[k]
            cc == Given.cc[t]
            ar == Given.ar[t]
        IN  TargetsRan(k) =>
              IF Given.dry_run \/ Contains(t, <<"emscripten">>)
              THEN ~AbortedAtTargetCc(k)
              ELSE IF IsNone(OnPath(cc))
              THEN AbortedAtTargetCc(k) /\ abort = Some(MissingCommand(cc))
              ELSE IF IsSome(ar) /\ IsNone(OnPath(Unwrap(ar)))
              THEN AbortedAtTargetCc(k) /\ abort = Some(MissingCommand(Unwrap(ar)))
              ELSE ~AbortedAtTargetCc(k)

\* the first target is an emscripten one whose compiler is nowhere, the
\* second has its compiler but not its archiver: the abort names the archiver
C17_Witness ==
    /\ AbortedAtTargetCc(2)
    /\ Contains(Given.targets[1], <<"emscripten">>)
    /\ IsNone(OnPath(Given.cc[Given.targets[1]]))
    /\ IsSome(OnPath(Given.cc[Given.targets[2]]))
    /\ abort = Some(MissingCommand(Prog("ar")))

\* C18: after a successful run every target whose triple contains musl has
\* a musl root, and root/lib/libc.a and root/lib/libunwind.a exist; a musl
\* target without any root that is not the build triple always aborts the
\* run; when both archives are missing the abort is the one for libc.a.
C18_MuslPostcondition ==
    \A k \in 1..Len(Given.targets) :
        LET t == Given.targets[k]
            root == musl_root(build, t)
        IN  Contains(t, <<"musl">>) =>
              /\ pc.rule = "done" =>
                    /\ IsSome(root)
                    /\ Exists(env.fs, LibcA(Unwrap(root)))
                    /\ Exists(env.fs, LibunwindA(Unwrap(root)))
              /\ (IsNone(musl_root(Given, t)) /\ t # Given.build) =>
                    /\ pc.rule # "done"
                    /\ ConstraintsRan(k) =>
                          /\ AbortedAtTarget(k)
                          /\ abort = Panic("musl-root must be specified", <<>>)
              /\ (/\ ConstraintsRan(k)
                  /\ IsSome(root)
                  /\ ~Exists(env.fs, LibcA(Unwrap(root)))
                  /\ ~Exists(env.fs, LibunwindA(Unwrap(root)))) =>
                    /\ AbortedAtTarget(k)
                    /\ abort = Panic("couldn't find libc.a in musl dir",
                                     LibDir(Unwrap(root)))

\* a run with a musl target and a configured global root completed
C18_Witness ==
    /\ pc.rule = "done"
    /\ \E k \in 1..Len(Given.targets) : Given.targets[k] = T_MUSL
    /\ Given.build # T_MUSL
    /\ Given.musl_root = Some(P_MUSL)
    /\ T_MUSL \notin DOMAIN build.target_config
    /\ {LibcA(P_MUSL), LibunwindA(P_MUSL)} \subseteq env.fs

\* C19: after a successful run the python path is set; the node and gdb
\* paths may be unset, which is what they are when nothing is configured and
\* nothing is found; the node and gdb resolution abort only when a
\* configured path cannot be found.
C19_OptionalTools ==
    /\ pc.rule = "done" => IsSome(build.python)
    /\ Done("nodejs") =>
          /\ AbortedAt("nodejs") <=>
                (IsSome(Given.nodejs) /\ IsNone(OnPath(Unwrap(Given.nodejs))))
          /\ AbortedAt("nodejs") => abort = Some(MissingCommand(Unwrap(Given.nodejs)))
          /\ ~AbortedAt("nodejs") =>
                build.nodejs =
                    IF IsSome(Given.nodejs) THEN OnPath(Unwrap(Given.nodejs))
                    ELSE OrElse(OnPath(Prog("node")), OnPath(Prog("nodejs")))
    /\ Done("gdb") =>
          /\ AbortedAt("gdb") <=>
                (IsSome(Given.gdb) /\ IsNone(OnPath(Unwrap(Given.gdb))))
          /\ AbortedAt("gdb") => abort = Some(MissingCommand(Unwrap(Given.gdb)))
          /\ ~AbortedAt("gdb") =>
                build.gdb =
                    IF IsSome(Given.gdb) THEN OnPath(Unwrap(Given.gdb))
                    ELSE OnPath(Prog("gdb"))

\* a run completed with python resolved from the path and neither node nor
\* gdb anywhere
C19_Witness ==
    /\ pc.rule = "done"
    /\ IsNone(Given.python) /\ IsNone(env.BOOTSTRAP_PYTHON)
    /\ IsSome(build.python)
    /\ IsNone(build.nodejs)
    /\ IsNone(build.gdb)
    /\ {Prog("node"), Prog("nodejs"), Prog("gdb")} \subseteq DOMAIN hist.probes

\* the four constraints of one target, stated on the given configuration
IosFails(t) ==
    Contains(t, <<"apple", "-", "ios">>) /\ ~Contains(Given.build, <<"apple", "-", "darwin">>)

NoStdFails(t) == Contains(t, <<"-", "none", "-">>) /\ no_std(Given, t) = Some(FALSE)

\* the musl root the target is checked with
MuslRootFor(t) ==
    IF IsSome(musl_root(Given, t)) THEN musl_root(Given, t)
    ELSE IF t = Given.build THEN Some(Dir("usr"))
    ELSE None

\* the panic the constraints of target t end in, None when they all pass
ExpectedAbort(t) ==
    IF IosFails(t) THEN Panic("the iOS target is only supported on macOS", <<>>)
    ELSE IF NoStdFails(t) THEN Panic("All the *-none-* targets are no-std targets", <<>>)
    ELSE IF Contains(t, <<"musl">>) /\ IsNone(MuslRootFor(t))
    THEN Panic("musl-root must be specified", <<>>)
    ELSE IF Contains(t, <<"musl">>) /\ ~Exists(env.fs, LibcA(Unwrap(MuslRootFor(t))))
    THEN Panic("couldn't find libc.a in musl dir", LibDir(Unwrap(MuslRootFor(t))))
    ELSE IF Contains(t, <<"musl">>) /\ ~Exists(env.fs, LibunwindA(Unwrap(MuslRootFor(t))))
    THEN Panic("couldn't find libunwind.a in musl dir", LibDir(Unwrap(MuslRootFor(t))))
    ELSE IF Contains(t, <<"msvc">>) /\ ~Contains(env.cmake_help.stdout, <<"Visual Studio">>)
    THEN Panic("cmake does not support Visual Studio generators", <<>>)
    ELSE None

\* C20: the per-target constraints run target by target: the run aborts at
\* the first target, in configured order, one of whose iOS, no-std, musl and
\* MSVC-cmake checks fails, with the message of the first of these that
\* fails for that target, whatever fails for later targets; and the no-std
\* and musl-root defaults written for the targets before it are in the
\* configuration at that point.  (Stated for runs in which `cmake --help`
\* can be run.)
C20_TargetByTarget ==
    (env.cmake_help.started /\ env.cmake_help.success) =>
        \A k \in 1..Len(Given.targets) :
            ConstraintsRan(k) =>
                /\ IF IsSome(ExpectedAbort(Given.targets[k]))
                   THEN AbortedAtTarget(k) /\ abort = ExpectedAbort(Given.targets[k])
                   ELSE ~AbortedAtTarget(k)
                /\ \A j \in 1..(k - 1) :
                      LET t == Given.targets[j]
                      IN  /\ Contains(t, <<"-", "none", "-">>) =>
                                 no_std(build, t) = Some(TRUE)
                          /\ Contains(t, <<"musl">>) =>
                                 musl_root(build, t) = MuslRootFor(t)

\* targets [A, B]: A fails only its musl check, B only its iOS check, and
\* the abort is A's musl failure
C20_Witness ==
    /\ Len(Given.targets) = 2
    /\ IosFails(Given.targets[2])
    /\ ~IosFails(Given.targets[1])
    /\ Contains(Given.targets[1], <<"musl">>)
    /\ IsSome(MuslRootFor(Given.targets[1]))
    /\ AbortedAtTarget(1)
    /\ abort = Panic("couldn't find libc.a in musl dir", LibDir(Unwrap(MuslRootFor(Given.targets[1]))))

====
